---- MODULE Spec2Model ----
(***************************************************************************)
(* A model of the crypto-trader client of the Independent Reserve          *)
(* exchange: the nonce counter of the private API (market/api/private.rs), *)
(* the order book and its fill-price queries (market/orderbook.rs) and the *)
(* best bid/offer query of the raw book (market/public/orderbook.rs).      *)
(*                                                                         *)
(* Six specifications share the variables:                                 *)
(*   Spec      the Private instances of one process and their requests     *)
(*   SpecInc   inc_nonce alone, from every value of the counter            *)
(*   SpecBook  an OrderBook built from a raw snapshot, and its queries     *)
(*   SpecRaw   the raw book of market/public/orderbook.rs                  *)
(*   SpecBot   the spread bot of bot/spread.rs                             *)
(*   SpecMain  the sampling loop of main.rs                                *)
(***************************************************************************)
EXTENDS Integers, Sequences, FiniteSets, TLC

VARIABLES
    now,        \* wall clock, ticks since the epoch
    privates,   \* the Private values alive, in order of creation
    origin,     \* history: how each Private came to be and its first counter
    sent,       \* history: the nonces sent to the exchange, in order of sending
    last,       \* the last private API call: method, instance, nonce, outcome
    raw,        \* api::OrderBook, the snapshot returned by GetOrderBook
    stage,      \* "fetched": raw is in hand; "built": book was built from it
    book,       \* the OrderBook built from raw
    res,        \* the last operation on book and its result
    rawBook,    \* the OrderBook of market/public/orderbook.rs
    rawRes,     \* the last result of bid_offer_spread
    pc,         \* where the spread bot is in run
    values,     \* the MinMax of the spread bot
    loop_counter, \* the loop counter of run
    file,       \* the entries written to the bot's log file
    info,       \* history: the samples logged as failed
    samples     \* history: the calls of update_values

vars == <<now, privates, origin, sent, last, raw, stage, book, res, rawBook, rawRes,
          pc, values, loop_counter, file, info, samples>>

nonceVars == <<now, privates, origin, sent, last>>
bookVars  == <<raw, stage, book, res>>
rawVars   == <<rawBook, rawRes>>
botVars   == <<pc, values, loop_counter, file, info, samples>>

(***************************************************************************)
(* Bounds of the model.                                                    *)
(***************************************************************************)
\* u64 is scaled to NonceBits bits.
NonceBits   == 6
\* The clock counts ticks, TicksPerSecond to the second, from 0 to MaxTime.
TicksPerSecond == 2
MaxTime     == 3
\* Private values created in one run, clones included.
MaxPrivates == 2
\* Private API calls made in one run.
MaxCalls    == 3
\* The 96 bits of a Decimal's mantissa are scaled to DecimalBits bits.
DecimalBits == 20
\* Calls of update_values in one run of the spread bot.
MaxSamples  == 4

U64_MAX == 2 ^ NonceBits - 1

\* The API keys of the configuration file; one credential each.
ApiKeys == {[api_key |-> "read-key", api_secret |-> "read-secret"]}

\* The methods of Private that are implemented, each of which signs one request.
Methods == {"GetOpenOrders", "GetClosedOrders", "GetClosedFilledOrders",
            "GetOrderDetails", "GetAccounts", "GetDigitalCurrencyDepositAddress",
            "GetDigitalCurrencyDepositAddresses", "GetTrades", "GetBrokerageFees",
            "GetDigitalCurrencyWithdrawal"}

\* What a call ends in: Ok, or Err from the transport, the status or the parser.
Outcomes == {"Ok", "Err"}

\* Arguments of the calls.
Bases       == {"Xbt"}
Quotes      == {"Aud"}
PageIndexes == {1, 2}
Guids       == {"guid"}
NoArgs      == [none |-> TRUE]

NoCall == [method |-> "none", inst |-> 0, nonce |-> 0, outcome |-> "none",
           args |-> NoArgs, body |-> NoArgs]

(***************************************************************************)
(* The nonce.                                                              *)
(***************************************************************************)
\* A slip: the clock read at its full resolution.
nonce_in_ticks(t) == t

\* nonce(): the time since the epoch, in whole seconds.
nonce(t) == t \div TicksPerSecond

\* Private::new: the counter starts at the nonce given.
PrivateNew(n, read_key, read_secret) ==
    [client |-> "client",
     keys   |-> [read |-> [key |-> read_key, secret |-> read_secret]],
     nonce  |-> n]

\* A slip: the counter is advanced before it is read.
inc_nonce_pre(self) ==
    [ret  |-> (self.nonce + 1) % (U64_MAX + 1),
     self |-> [self EXCEPT !.nonce = (self.nonce + 1) % (U64_MAX + 1)]]

\* A slip: the counter advanced once more than the nonce consumed.
inc_nonce_twice(self) ==
    [ret  |-> self.nonce,
     self |-> [self EXCEPT !.nonce = (self.nonce + 2) % (U64_MAX + 1)]]

\* inc_nonce: returns the counter and advances it by one (wrapping at the width).
inc_nonce(self) ==
    [ret  |-> self.nonce,
     self |-> [self EXCEPT !.nonce = (self.nonce + 1) % (U64_MAX + 1)]]

(***************************************************************************)
(* The signed request.  A string is the sequence of its pieces and         *)
(* format! joins the pieces of its template and its arguments.             *)
(***************************************************************************)
PAGE_SIZE == 25

URL == "https://api.independentreserve.com/Private"

\* Display of an integer.
Display(n) == ToString(n)

\* build_url: URL, a slash and the path.
build_url(path) == <<URL, "/", path>>

\* sign: the hex of the HMAC-SHA256 of msg under key; the code is taken to be
\* free of collisions, so it stands for the message and the key it was made of.
sign(msg, key) == [hmac_sha256 |-> msg, key |-> key]

sign_read_only(self, msg) == sign(msg, self.keys.read.secret)

\* A slip: the quote currency signed before the base currency.
orders_body_quote_first(self, url, nonce_, base, quote, page_index) ==
    LET api_key   == self.keys.read.key
        msg       == url \o <<",apiKey=", api_key, ",nonce=", Display(nonce_),
                              ",secondaryCurrencyCode=", quote,
                              ",primaryCurrencyCode=", base,
                              ",pageIndex=", Display(page_index),
                              ",pageSize=", Display(PAGE_SIZE)>>
        signature == sign_read_only(self, msg)
    IN  [api_key |-> api_key, nonce |-> nonce_, signature |-> signature,
         primary_currency_code |-> base, secondary_currency_code |-> quote,
         page_index |-> page_index, page_size |-> 25]

orders_body(self, url, nonce_, base, quote, page_index) ==
    LET api_key   == self.keys.read.key
        msg       == url \o <<",apiKey=", api_key, ",nonce=", Display(nonce_),
                              ",primaryCurrencyCode=", base,
                              ",secondaryCurrencyCode=", quote,
                              ",pageIndex=", Display(page_index),
                              ",pageSize=", Display(PAGE_SIZE)>>
        signature == sign_read_only(self, msg)
    IN  [api_key |-> api_key, nonce |-> nonce_, signature |-> signature,
         primary_currency_code |-> base, secondary_currency_code |-> quote,
         page_index |-> page_index, page_size |-> 25]

simple_body(self, url, nonce_) ==
    LET api_key   == self.keys.read.key
        msg       == url \o <<",apiKey=", api_key, ",nonce=", Display(nonce_)>>
        signature == sign_read_only(self, msg)
    IN  [api_key |-> api_key, nonce |-> nonce_, signature |-> signature]

order_guid_body(self, url, nonce_, guid) ==
    LET api_key   == self.keys.read.key
        msg       == url \o <<",apiKey=", api_key, ",nonce=", Display(nonce_),
                              ",orderGuid=", guid>>
        signature == sign_read_only(self, msg)
    IN  [api_key |-> api_key, nonce |-> nonce_, order_guid |-> guid,
         signature |-> signature]

currency_body(self, url, nonce_, currency) ==
    LET api_key   == self.keys.read.key
        msg       == url \o <<",apiKey=", api_key, ",nonce=", Display(nonce_),
                              ",primaryCurrencyCode=", currency>>
        signature == sign_read_only(self, msg)
    IN  [api_key |-> api_key, nonce |-> nonce_, primary_currency_code |-> currency,
         signature |-> signature]

tx_guid_body(self, url, nonce_, guid) ==
    LET api_key   == self.keys.read.key
        msg       == url \o <<",apiKey=", api_key, ",nonce=", Display(nonce_),
                              ",transactionGuid=", guid>>
        signature == sign_read_only(self, msg)
    IN  [api_key |-> api_key, nonce |-> nonce_, transaction_guid |-> guid,
         signature |-> signature]

\* A slip: a page size in the payload that is not the one signed.
page_index_body_other_size(self, url, nonce_, page_index) ==
    LET api_key   == self.keys.read.key
        msg       == url \o <<",apiKey=", api_key, ",nonce=", Display(nonce_),
                              ",pageIndex=", Display(page_index),
                              ",pageSize=", Display(PAGE_SIZE)>>
        signature == sign_read_only(self, msg)
    IN  [api_key |-> api_key, nonce |-> nonce_, page_index |-> page_index,
         page_size |-> PAGE_SIZE + PAGE_SIZE, signature |-> signature]

page_index_body(self, url, nonce_, page_index) ==
    LET api_key   == self.keys.read.key
        msg       == url \o <<",apiKey=", api_key, ",nonce=", Display(nonce_),
                              ",pageIndex=", Display(page_index),
                              ",pageSize=", Display(PAGE_SIZE)>>
        signature == sign_read_only(self, msg)
    IN  [api_key |-> api_key, nonce |-> nonce_, page_index |-> page_index,
         page_size |-> PAGE_SIZE, signature |-> signature]

currency_page_index_body(self, url, nonce_, currency, page_index) ==
    LET api_key   == self.keys.read.key
        msg       == url \o <<",apiKey=", api_key, ",nonce=", Display(nonce_),
                              ",primaryCurrencyCode=", currency,
                              ",pageIndex=", Display(page_index),
                              ",pageSize=", Display(PAGE_SIZE)>>
        signature == sign_read_only(self, msg)
    IN  [api_key |-> api_key, nonce |-> nonce_, primary_currency_code |-> currency,
         page_index |-> page_index, page_size |-> PAGE_SIZE, signature |-> signature]

\* The arguments a method takes.
ArgsOf(m) ==
    CASE m \in {"GetOpenOrders", "GetClosedOrders", "GetClosedFilledOrders"} ->
            {[base |-> b, quote |-> q, page_index |-> pi] :
                b \in Bases, q \in Quotes, pi \in PageIndexes}
      [] m = "GetOrderDetails" -> {[order_guid |-> g] : g \in Guids}
      [] m \in {"GetAccounts", "GetBrokerageFees"} -> {NoArgs}
      [] m = "GetDigitalCurrencyDepositAddress" ->
            {[primary_currency_code |-> c] : c \in Bases}
      [] m = "GetDigitalCurrencyDepositAddresses" ->
            {[currency |-> c, page_index |-> pi] : c \in Bases, pi \in PageIndexes}
      [] m = "GetTrades" -> {[page_index |-> pi] : pi \in PageIndexes}
      [] m = "GetDigitalCurrencyWithdrawal" -> {[tx_guid |-> g] : g \in Guids}

\* The body a method builds with the nonce it consumed: its second and third
\* statements.
RequestBody(self, m, nonce_, args) ==
    LET url == build_url(m)
    IN  CASE m \in {"GetOpenOrders", "GetClosedOrders", "GetClosedFilledOrders"} ->
                orders_body(self, url, nonce_, args.base, args.quote, args.page_index)
          [] m = "GetOrderDetails" -> order_guid_body(self, url, nonce_, args.order_guid)
          [] m \in {"GetAccounts", "GetBrokerageFees"} -> simple_body(self, url, nonce_)
          [] m = "GetDigitalCurrencyDepositAddress" ->
                currency_body(self, url, nonce_, args.primary_currency_code)
          [] m = "GetDigitalCurrencyDepositAddresses" ->
                currency_page_index_body(self, url, nonce_, args.currency, args.page_index)
          [] m = "GetTrades" -> page_index_body(self, url, nonce_, args.page_index)
          [] m = "GetDigitalCurrencyWithdrawal" ->
                tx_guid_body(self, url, nonce_, args.tx_guid)

(***************************************************************************)
(* The Private of market/private.rs, which holds no counter: each call     *)
(* reads the clock for its nonce and signs with the key of the source.     *)
(***************************************************************************)
READER_API_KEY    == "b2f7707a-4b1c-4880-b4c4-036d81f3de59"
READER_API_SECRET == "get this from the file system"

\* sign(msg) of market/private.rs
sign_reader(msg) == sign(msg, READER_API_SECRET)

ParamsOrdersNew(key, nonce_, sig) ==
    [api_key |-> key, nonce |-> nonce_, signature |-> sig,
     primary_currency_code |-> "Xbt", secondary_currency_code |-> "Aud",
     page_index |-> 1, page_size |-> 25]

\* What get_open_orders and get_closed_orders post to `path`.
reader_orders_params(path, nonce_) ==
    LET url        == build_url(path)
        base       == "Xbt"
        quote      == "Aud"
        page_index == 1
        page_size  == 25
        api_key    == READER_API_KEY
        msg        == url \o <<",apiKey=", api_key, ",nonce=", Display(nonce_),
                               ",primaryCurrencyCode=", base,
                               ",secondaryCurrencyCode=", quote,
                               ",pageIndex=", Display(page_index),
                               ",pageSize=", Display(page_size)>>
        sig        == sign_reader(msg)
    IN  ParamsOrdersNew(api_key, nonce_, sig)

(***************************************************************************)
(* Actions on the Private instances.                                       *)
(***************************************************************************)
\* Wall-clock time passes.
Tick ==
    /\ now < MaxTime
    /\ now' = now + 1
    /\ UNCHANGED <<privates, origin, sent, last, bookVars, rawVars, botVars>>

\* Market::with_read_only, Api::new and assert_private_api_read_only: a Private
\* seeded from the clock.
WithReadOnly(read) ==
    /\ Len(privates) < MaxPrivates
    /\ LET n == nonce(now)
       IN  /\ privates' = Append(privates, PrivateNew(n, read.api_key, read.api_secret))
           /\ origin' = Append(origin, [how |-> "new", seed |-> n])
    /\ UNCHANGED <<now, sent, last, bookVars, rawVars, botVars>>

\* #[derive(Clone)] on Private and on Market: the clone copies the counter.
Clone(i) ==
    /\ Len(privates) < MaxPrivates
    /\ privates' = Append(privates, privates[i])
    /\ origin' = Append(origin, [how |-> "clone", seed |-> privates[i].nonce])
    /\ UNCHANGED <<now, sent, last, bookVars, rawVars, botVars>>

\* One private API call on instance i: the nonce is consumed first, the body is
\* built and signed with it and posted; the call ends in Ok or in Err.
Call(i, m, args, outcome) ==
    /\ Len(sent) < MaxCalls
    /\ LET r == inc_nonce(privates[i])
       IN  /\ privates' = [privates EXCEPT ![i] = r.self]
           /\ sent' = Append(sent, [inst |-> i, key |-> privates[i].keys, nonce |-> r.ret])
           /\ last' = [method |-> m, inst |-> i, nonce |-> r.ret, outcome |-> outcome,
                       args |-> args, body |-> RequestBody(r.self, m, r.ret, args)]
    /\ UNCHANGED <<now, origin, bookVars, rawVars, botVars>>

\* get_open_orders and get_closed_orders of market/private.rs: instance 0, the
\* Private without a counter.
ReaderOrders(m, outcome) ==
    /\ Len(sent) < MaxCalls
    /\ LET n == nonce(now)
       IN  /\ sent' = Append(sent, [inst  |-> 0,
                                    key   |-> [read |-> [key    |-> READER_API_KEY,
                                                         secret |-> READER_API_SECRET]],
                                    nonce |-> n])
           /\ last' = [method |-> m, inst |-> 0, nonce |-> n, outcome |-> outcome,
                       args |-> NoArgs, body |-> reader_orders_params(m, n)]
    /\ UNCHANGED <<now, privates, origin, bookVars, rawVars, botVars>>

NoRes == [op |-> "none"]

\* Decimal::max_value() and Decimal::min_value()
DecimalMaxValue == [num |-> 2 ^ DecimalBits - 1, den |-> 1]
DecimalMinValue == [num |-> 1 - 2 ^ DecimalBits, den |-> 1]

\* MinMax::default()
MinMaxDefault ==
    [min_spread        |-> DecimalMaxValue,
     max_spread        |-> DecimalMinValue,
     min_percent       |-> DecimalMaxValue,
     max_percent       |-> DecimalMinValue,
     less_than_two     |-> 0,
     two_to_three      |-> 0,
     three_to_four     |-> 0,
     greater_than_four |-> 0]

\* The spread bot is not running.
BotIdle ==
    /\ pc = "idle"
    /\ values = MinMaxDefault
    /\ loop_counter = 0
    /\ file = <<>>
    /\ info = 0
    /\ samples = 0

NonceInit ==
    /\ now = 0
    /\ privates = <<>>
    /\ origin = <<>>
    /\ sent = <<>>
    /\ last = NoCall

BookIdle ==
    /\ raw = [buy_orders |-> <<>>, sell_orders |-> <<>>]
    /\ stage = "fetched"
    /\ book = [buys |-> <<>>, sells |-> <<>>]
    /\ res = NoRes

RawIdle ==
    /\ rawBook = [buy_orders |-> <<>>, sell_orders |-> <<>>]
    /\ rawRes = NoRes

Init == NonceInit /\ BookIdle /\ RawIdle /\ BotIdle

Next ==
    \/ Tick
    \/ \E read \in ApiKeys : WithReadOnly(read)
    \/ \E i \in 1..Len(privates) : Clone(i)
    \/ \E i \in 1..Len(privates), m \in Methods, outcome \in Outcomes :
          \E args \in ArgsOf(m) : Call(i, m, args, outcome)
    \/ \E m \in {"GetOpenOrders", "GetClosedOrders"}, outcome \in Outcomes :
          ReaderOrders(m, outcome)

Spec == Init /\ [][Next]_vars

(***************************************************************************)
(* C1.  On one Private instance the nonces sent are the seed, seed + 1,    *)
(* seed + 2, ...: the first call of an instance made by Private::new uses  *)
(* the seed, each later call uses the previous nonce + 1, and so the       *)
(* sequence is strictly increasing.                                        *)
(***************************************************************************)
\* The nonces instance i has sent, oldest first.
RECURSIVE NoncesOf(_, _)
NoncesOf(i, s) ==
    IF s = <<>> THEN <<>>
    ELSE IF s[1].inst = i THEN <<s[1].nonce>> \o NoncesOf(i, Tail(s))
         ELSE NoncesOf(i, Tail(s))

C1_NonceSequence ==
    \A i \in 1..Len(privates) :
        LET ns == NoncesOf(i, sent)
        IN  /\ (Len(ns) > 0 /\ origin[i].how = "new") => ns[1] = origin[i].seed
            /\ \A j \in 1..(Len(ns) - 1) : ns[j + 1] = ns[j] + 1 /\ ns[j] < ns[j + 1]

C1_Witness ==
    \E i \in 1..Len(privates) :
        /\ origin[i].how = "new"
        /\ Len(NoncesOf(i, sent)) >= 3

(***************************************************************************)
(* C2.  For one credential, every nonce sent is strictly greater than      *)
(* every nonce sent earlier on that credential, whichever Private          *)
(* instances (clones, separately seeded ones) sent them.                   *)
(***************************************************************************)
C2_CredentialNoncesIncrease ==
    \A a, b \in 1..Len(sent) :
        (a < b /\ sent[a].key = sent[b].key) => sent[a].nonce < sent[b].nonce

(***************************************************************************)
(* What the claims about the signed request are stated with.               *)
(***************************************************************************)
\* The message the last call signed, as its signature holds it.
SignedMsg == last.body.signature.hmac_sha256

\* The arguments of the last call; the calls of market/private.rs take none
\* and sign Xbt, Aud and the first page.
CallArgs ==
    IF last.inst = 0 THEN [base |-> "Xbt", quote |-> "Aud", page_index |-> 1]
    ELSE last.args

\* The credential the last call was sent on.
CallKey == sent[Len(sent)].key.read

\* The parameters of an endpoint in the order they are signed, each the piece
\* ",name=" and the value as it is written.
ParamsOf(m, args) ==
    CASE m \in {"GetOpenOrders", "GetClosedOrders", "GetClosedFilledOrders"} ->
            <<",primaryCurrencyCode=", args.base,
              ",secondaryCurrencyCode=", args.quote,
              ",pageIndex=", ToString(args.page_index),
              ",pageSize=", ToString(PAGE_SIZE)>>
      [] m = "GetOrderDetails" -> <<",orderGuid=", args.order_guid>>
      [] m \in {"GetAccounts", "GetBrokerageFees"} -> <<>>
      [] m = "GetDigitalCurrencyDepositAddress" ->
            <<",primaryCurrencyCode=", args.primary_currency_code>>
      [] m = "GetDigitalCurrencyDepositAddresses" ->
            <<",primaryCurrencyCode=", args.currency,
              ",pageIndex=", ToString(args.page_index),
              ",pageSize=", ToString(PAGE_SIZE)>>
      [] m = "GetTrades" ->
            <<",pageIndex=", ToString(args.page_index), ",pageSize=", ToString(PAGE_SIZE)>>
      [] m = "GetDigitalCurrencyWithdrawal" -> <<",transactionGuid=", args.tx_guid>>

\* The piece of the signed message that names the parameter of a payload field
\* (the payload is serialized with the field names in camelCase).
SignedName ==
    [api_key                 |-> ",apiKey=",
     nonce                   |-> ",nonce=",
     primary_currency_code   |-> ",primaryCurrencyCode=",
     secondary_currency_code |-> ",secondaryCurrencyCode=",
     order_guid              |-> ",orderGuid=",
     transaction_guid        |-> ",transactionGuid=",
     page_index              |-> ",pageIndex=",
     page_size               |-> ",pageSize="]

PayloadFields == DOMAIN last.body \ {"signature"}

\* A payload value as the message writes it.
Written(f) ==
    IF f \in {"nonce", "page_index", "page_size"} THEN ToString(last.body[f])
    ELSE last.body[f]

\* Where the message names the parameter of field f.
PlacesOf(f) == {k \in 1..(Len(SignedMsg) - 1) : SignedMsg[k] = SignedName[f]}

(***************************************************************************)
(* C15.  Every request body builder of Private signs a comma-joined        *)
(* message that starts with the full request URL, then apiKey=<key>, then  *)
(* nonce=<nonce>, then the endpoint's parameters in one fixed order; the   *)
(* message is determined by the endpoint, the key, the nonce and the       *)
(* arguments.                                                              *)
(***************************************************************************)
C15_SignedMessageLayout ==
    last.method # "none"
        => SignedMsg = <<URL, "/", last.method,
                         ",apiKey=", CallKey.key,
                         ",nonce=", ToString(last.nonce)>>
                       \o ParamsOf(last.method, CallArgs)

\* The second page of the deposit addresses: three parameters after the nonce.
C15_Witness ==
    /\ last.method = "GetDigitalCurrencyDepositAddresses"
    /\ last.args.page_index = 2
    /\ Len(SignedMsg) = 13
    /\ SignedMsg[9] = last.args.currency

(***************************************************************************)
(* C16.  For every request body builder and all inputs, each value of the  *)
(* outgoing payload (api key, nonce, currency codes, guid, page index,     *)
(* page size) equals the value the signed message has for that parameter,  *)
(* and every signed parameter is in the payload; the payload nonce is the  *)
(* nonce consumed for the call and the payload page size is the signed     *)
(* pageSize.                                                               *)
(***************************************************************************)
C16_PayloadMatchesSignedMessage ==
    last.method # "none"
        => /\ \A f \in PayloadFields :
                 /\ Cardinality(PlacesOf(f)) = 1
                 /\ \A k \in PlacesOf(f) : SignedMsg[k + 1] = Written(f)
           /\ Len(SignedMsg) = 3 + 2 * Cardinality(PayloadFields)
           /\ last.body.nonce = last.nonce
           /\ last.body.nonce = sent[Len(sent)].nonce
           /\ last.body.api_key = CallKey.key
           /\ last.body.signature.key = CallKey.secret
           /\ "page_size" \in PayloadFields => last.body.page_size = PAGE_SIZE

\* An orders call of a Private with a counter: the page size written as a
\* number in the payload beside the signed PAGE_SIZE.
C16_Witness ==
    /\ last.method = "GetClosedFilledOrders"
    /\ last.inst # 0
    /\ last.args.page_index = 2
    /\ last.body.page_size = PAGE_SIZE
    /\ last.body.nonce > 0

(***************************************************************************)
(* C18.  Every implemented private API call of Private advances the nonce  *)
(* counter of the instance by exactly one, whether it ends in Ok or in     *)
(* Err, and changes nothing else: client and keys of the instance and all  *)
(* other instances stay as they were.                                      *)
(***************************************************************************)
C18_CallAdvancesNonceByOne ==
    [][(sent' # sent /\ last'.inst # 0)
          => /\ last'.method \in Methods
             /\ last'.outcome \in Outcomes
             /\ Len(privates') = Len(privates)
             /\ \A j \in 1..Len(privates) :
                   IF j = last'.inst
                   THEN /\ privates'[j].nonce = privates[j].nonce + 1
                        /\ privates'[j].client = privates[j].client
                        /\ privates'[j].keys = privates[j].keys
                        /\ DOMAIN privates'[j] = DOMAIN privates[j]
                   ELSE privates'[j] = privates[j]]_vars

\* A call that ended in Err after one that ended in Ok, the counter one past
\* the nonce of the failed call.
C18_Witness ==
    /\ last.inst # 0
    /\ last.outcome = "Err"
    /\ Len(NoncesOf(last.inst, sent)) >= 2
    /\ privates[last.inst].nonce = last.nonce + 1

(***************************************************************************)
(* inc_nonce over the whole range of the counter.  Private::new takes any  *)
(* u64; `self.nonce += 1` at u64::MAX panics in a build with overflow      *)
(* checks and wraps to 0 in a build without them.                          *)
(***************************************************************************)
\* One call of inc_nonce on the Private; after a panic no call follows.
IncNonce(overflow_checks) ==
    /\ Len(sent) < MaxCalls
    /\ last.outcome # "Panic"
    /\ IF overflow_checks /\ privates[1].nonce = U64_MAX
       THEN /\ last' = [method |-> "inc_nonce", inst |-> 1, nonce |-> privates[1].nonce,
                        outcome |-> "Panic", args |-> NoArgs, body |-> NoArgs]
            /\ UNCHANGED <<privates, sent>>
       ELSE LET r == inc_nonce(privates[1])
            IN  /\ privates' = [privates EXCEPT ![1] = r.self]
                /\ sent' = Append(sent, [inst |-> 1, key |-> privates[1].keys,
                                         nonce |-> r.ret])
                /\ last' = [method |-> "inc_nonce", inst |-> 1, nonce |-> r.ret,
                            outcome |-> "Ok", args |-> NoArgs, body |-> NoArgs]
    /\ UNCHANGED <<now, origin, bookVars, rawVars, botVars>>

\* A Private made by Private::new with any nonce.
InitInc ==
    /\ now = 0
    /\ \E n \in 0..U64_MAX, read \in ApiKeys :
          /\ privates = <<PrivateNew(n, read.api_key, read.api_secret)>>
          /\ origin = <<[how |-> "new", seed |-> n]>>
    /\ sent = <<>>
    /\ last = NoCall
    /\ BookIdle
    /\ RawIdle
    /\ BotIdle

NextInc == \E overflow_checks \in BOOLEAN : IncNonce(overflow_checks)

SpecInc == InitInc /\ [][NextInc]_vars

(***************************************************************************)
(* C21.  inc_nonce has no error path for any value of the counter: for     *)
(* every u64, u64::MAX included, the call returns without a panic and the  *)
(* next nonce is greater than the one returned (the counter never wraps    *)
(* to a smaller value).                                                    *)
(***************************************************************************)
C21_IncNonceIsTotal ==
    last.method = "inc_nonce"
        => /\ last.outcome = "Ok"
           /\ privates[1].nonce > last.nonce

(***************************************************************************)
(* C22.  In market/private.rs, where each call reads its nonce from the    *)
(* wall clock in whole seconds, any two successive private calls carry     *)
(* strictly increasing nonces, whatever the time between the two calls.    *)
(***************************************************************************)
C22_ClockNoncesIncrease ==
    \A a, b \in 1..Len(sent) :
        (a < b /\ sent[a].inst = 0 /\ sent[b].inst = 0) => sent[a].nonce < sent[b].nonce

(***************************************************************************)
(* C26.  When a Private for a credential is created again (a restart, a    *)
(* second Market::with_read_only), its seed, the Unix time in seconds, is  *)
(* strictly greater than every nonce an earlier instance issued for that   *)
(* credential, however many calls that instance made and however fast.     *)
(***************************************************************************)
C26_NewSeedAboveEarlierNonces ==
    [][(/\ Len(privates') = Len(privates) + 1
        /\ origin'[Len(privates')].how = "new")
          => \A a \in 1..Len(sent) :
                sent[a].key = privates'[Len(privates')].keys
                    => privates'[Len(privates')].nonce > sent[a].nonce]_vars

(***************************************************************************)
(* The order book of market/orderbook.rs.                                  *)
(*                                                                         *)
(* A Decimal price or volume of a level is an integer here.  A quotient of *)
(* two Decimals is the fraction num/den in lowest terms with den > 0.      *)
(***************************************************************************)
\* Raw entries on the two sides of a snapshot, together.
MaxOrders      == 3
\* Queries ask for the volumes -1 .. MaxQueryVolume.
MaxQueryVolume == 6

\* Option<Decimal>
None    == [some |-> FALSE, val |-> 0]
Some(x) == [some |-> TRUE, val |-> x]

\* Result<T>, and the panic that unwinds out of a call.
Ok(x)    == [kind |-> "Ok", val |-> x]
Err(e)   == [kind |-> "Err", val |-> e]
Panic(e) == [kind |-> "Panic", val |-> e]

\* api::OrderType -> Position
PositionFrom(order_type) ==
    CASE order_type = "LimitBid"   -> "Buy"
      [] order_type = "LimitOffer" -> "Sell"

\* A slip: the price and the volume of the entry exchanged.
TryFromPublicOrderSwapped(order) ==
    IF ~order.price.some THEN Err("NullValue")
    ELSE IF ~order.volume.some THEN Err("NullValue")
    ELSE Ok([position |-> PositionFrom(order.order_type),
             price    |-> order.volume.val,
             volume   |-> order.price.val])

\* A slip: a null price or volume read as zero.
TryFromPublicOrderOrZero(order) ==
    Ok([position |-> PositionFrom(order.order_type),
        price    |-> order.price.val,
        volume   |-> order.volume.val])

\* Order::try_from(&api::PublicOrder): a null price or volume is NullValue.
TryFromPublicOrder(order) ==
    IF ~order.price.some THEN Err("NullValue")
    ELSE IF ~order.volume.some THEN Err("NullValue")
    ELSE Ok([position |-> PositionFrom(order.order_type),
             price    |-> order.price.val,
             volume   |-> order.volume.val])

\* A slip: the position of an entry not compared with its list.
RECURSIVE PushOrdersAnyPosition(_, _)
PushOrdersAnyPosition(orders, pos) ==
    IF orders = <<>> THEN <<>>
    ELSE LET o    == TryFromPublicOrder(Head(orders))
             rest == PushOrdersAnyPosition(Tail(orders), pos)
         IN  IF o.kind = "Ok" THEN <<o.val>> \o rest ELSE rest

\* A slip: the entries of one price merged into one level.
RECURSIVE PushOrdersOncePerPrice(_, _)
PushOrdersOncePerPrice(orders, pos) ==
    IF orders = <<>> THEN <<>>
    ELSE LET o    == TryFromPublicOrder(Head(orders))
             rest == PushOrdersOncePerPrice(Tail(orders), pos)
         IN  IF /\ o.kind = "Ok"
                /\ o.val.position = pos
                /\ \A i \in 1..Len(rest) : rest[i].price # o.val.price
             THEN <<o.val>> \o rest
             ELSE rest

\* The loop over one raw list: an entry is pushed when it converts and its
\* position is the list's; others are skipped.
RECURSIVE PushOrders(_, _)
PushOrders(orders, pos) ==
    IF orders = <<>> THEN <<>>
    ELSE LET o    == TryFromPublicOrder(Head(orders))
             rest == PushOrders(Tail(orders), pos)
         IN  IF o.kind = "Ok" /\ o.val.position = pos THEN <<o.val>> \o rest ELSE rest

\* The warnings of the loop over one raw list: one for each entry that
\* converts and has the position of the other list.
RECURSIVE Warned(_, _)
Warned(orders, pos) ==
    IF orders = <<>> THEN 0
    ELSE LET o == TryFromPublicOrder(Head(orders))
         IN  (IF o.kind = "Ok" /\ o.val.position # pos THEN 1 ELSE 0)
                 + Warned(Tail(orders), pos)

\* Ord::cmp and Ordering::reverse
Cmp(a, b) == IF a < b THEN "Less" ELSE IF a = b THEN "Equal" ELSE "Greater"
Reverse(o) ==
    CASE o = "Less"    -> "Greater"
      [] o = "Equal"   -> "Equal"
      [] o = "Greater" -> "Less"

\* A slip: the bids compared like the offers.
BuysCmpNotReversed(a, b) == Cmp(a.price, b.price)

\* The comparators given to sort_unstable_by.
BuysCmp(a, b)  == Reverse(Cmp(a.price, b.price))

\* A slip: the offers compared like the bids.
SellsCmpReversed(a, b) == Reverse(Cmp(a.price, b.price))

SellsCmp(a, b) == Cmp(a.price, b.price)

Rearrangements(v) ==
    LET n == Len(v)
        bij == {f \in [1..n -> 1..n] : \A i, j \in 1..n : f[i] = f[j] => i = j}
    IN  {[i \in 1..n |-> v[f[i]]] : f \in bij}

Elements(v) == {v[i] : i \in 1..Len(v)}

\* slice::sort_unstable_by: the elements in an order the comparator cmp (a
\* function of pairs of elements) accepts; the order of elements that compare
\* Equal is not specified.
sort_unstable_by(v, cmp) ==
    {p \in Rearrangements(v) : \A i \in 1..(Len(p) - 1) : cmp[<<p[i], p[i + 1]>>] # "Greater"}

\* From<api::OrderBook> for OrderBook: the books the conversion can return.
OrderBookFrom(orderbook) ==
    LET buys  == PushOrders(orderbook.buy_orders, "Buy")
        sells == PushOrders(orderbook.sell_orders, "Sell")
    IN  {[buys |-> b, sells |-> s] :
            b \in sort_unstable_by(buys,
                    [ab \in Elements(buys) \X Elements(buys) |-> BuysCmp(ab[1], ab[2])]),
            s \in sort_unstable_by(sells,
                    [ab \in Elements(sells) \X Elements(sells) |-> SellsCmp(ab[1], ab[2])])}

RECURSIVE Gcd(_, _)
Gcd(a, b) == IF b = 0 THEN a ELSE Gcd(b, a % b)
Abs(x) == IF x < 0 THEN -x ELSE x

\* Decimal / Decimal for a divisor that is not zero.
DecimalDiv(n, d) ==
    LET g  == Gcd(Abs(n), Abs(d))
        sg == IF d < 0 THEN -1 ELSE 1
    IN  [num |-> sg * (n \div g), den |-> sg * (d \div g)]

\* A slip: the last level charged whole where only the rest is taken.
RECURSIVE FillLoopWholeLevel(_, _, _, _)
FillLoopWholeLevel(v, i, still_to_fill, total_spend) ==
    IF i > Len(v) THEN [still_to_fill |-> still_to_fill, total_spend |-> total_spend]
    ELSE LET order == v[i]
             whole == still_to_fill > order.volume
             still == IF whole THEN still_to_fill - order.volume ELSE 0
             total == total_spend + order.volume * order.price
         IN  IF still = 0 THEN [still_to_fill |-> still, total_spend |-> total]
             ELSE FillLoopWholeLevel(v, i + 1, still, total)

\* The loop of price_to_fill from level i on; ends at the break or after the
\* last level.
RECURSIVE FillLoop(_, _, _, _)
FillLoop(v, i, still_to_fill, total_spend) ==
    IF i > Len(v) THEN [still_to_fill |-> still_to_fill, total_spend |-> total_spend]
    ELSE LET order == v[i]
             whole == still_to_fill > order.volume
             still == IF whole THEN still_to_fill - order.volume ELSE 0
             total == IF whole THEN total_spend + order.volume * order.price
                      ELSE total_spend + still_to_fill * order.price
         IN  IF still = 0 THEN [still_to_fill |-> still, total_spend |-> total]
             ELSE FillLoop(v, i + 1, still, total)

\* A slip: a market order matched against its own side.
MatchingSideOwn(self, pos) == IF pos = "Buy" THEN self.buys ELSE self.sells

\* A market order matches against the other side of the book.
MatchingSide(self, pos) == IF pos = "Buy" THEN self.sells ELSE self.buys

\* A slip: the depth check dropped.
price_to_fill_unchecked(self, volume, pos) ==
    LET w == FillLoop(MatchingSide(self, pos), 1, volume, 0)
    IN  IF volume = 0 THEN Panic("Division by zero")
        ELSE Ok(DecimalDiv(w.total_spend, volume))

\* OrderBook::price_to_fill
price_to_fill(self, volume, pos) ==
    LET w == FillLoop(MatchingSide(self, pos), 1, volume, 0)
    IN  IF w.still_to_fill > 0 THEN Err("failed to fill order")
        ELSE IF volume = 0 THEN Panic("Division by zero")
        ELSE Ok(DecimalDiv(w.total_spend, volume))

price_to_fill_buy_order(self, volume)  == price_to_fill(self, volume, "Buy")
price_to_fill_sell_order(self, volume) == price_to_fill(self, volume, "Sell")

\* A slip: the pair in the order (buy_price, sell_price).
spread_to_fill_buy_first(self, volume) ==
    LET buy_price == price_to_fill_buy_order(self, volume)
    IN  IF buy_price.kind # "Ok" THEN buy_price
        ELSE LET sell_price == price_to_fill_sell_order(self, volume)
             IN  IF sell_price.kind # "Ok" THEN sell_price
                 ELSE Ok(<<buy_price.val, sell_price.val>>)

\* A slip: a failure of the sell side papered over with the buy price.
spread_to_fill_one_side(self, volume) ==
    LET buy_price == price_to_fill_buy_order(self, volume)
    IN  IF buy_price.kind # "Ok" THEN buy_price
        ELSE LET sell_price == price_to_fill_sell_order(self, volume)
             IN  IF sell_price.kind # "Ok" THEN Ok(<<buy_price.val, buy_price.val>>)
                 ELSE Ok(<<sell_price.val, buy_price.val>>)

\* OrderBook::spread_to_fill: `?` returns the first failure; the pair is
\* (sell_price, buy_price).
spread_to_fill(self, volume) ==
    LET buy_price == price_to_fill_buy_order(self, volume)
    IN  IF buy_price.kind # "Ok" THEN buy_price
        ELSE LET sell_price == price_to_fill_sell_order(self, volume)
             IN  IF sell_price.kind # "Ok" THEN sell_price
                 ELSE Ok(<<sell_price.val, buy_price.val>>)

(***************************************************************************)
(* The snapshots GetOrderBook returns in the model.                        *)
(***************************************************************************)
Prices  == {100, 110}
Volumes == {2, 3}

OrderTypeOf(side) == IF side = "Buy" THEN "LimitBid" ELSE "LimitOffer"
Other(side)       == IF side = "Buy" THEN "Sell" ELSE "Buy"

PublicOrder(side, price, volume) ==
    [order_type |-> OrderTypeOf(side), price |-> price, volume |-> volume]

\* What one entry of the list of `side` can be: a level, an entry with a null
\* price or a null volume, or an entry of the other order type.
RawOrders(side) ==
    {PublicOrder(side, Some(p), Some(v)) : p \in Prices, v \in Volumes}
    \cup {PublicOrder(side, None, Some(2)),
          PublicOrder(side, Some(100), None),
          PublicOrder(Other(side), Some(100), Some(2))}

RawLists(side, n) == UNION {[1..k -> RawOrders(side)] : k \in 0..n}

\* The books of the examples: one offer {100, 5}; bid {99, 10} and offer {101, 10}.
ExampleSnapshots ==
    {[buy_orders  |-> <<>>,
      sell_orders |-> <<PublicOrder("Sell", Some(100), Some(5))>>],
     [buy_orders  |-> <<PublicOrder("Buy", Some(99), Some(10))>>,
      sell_orders |-> <<PublicOrder("Sell", Some(101), Some(10))>>]}

Snapshots ==
    {[buy_orders |-> b, sell_orders |-> s] :
        <<b, s>> \in {x \in RawLists("Buy", MaxOrders) \X RawLists("Sell", MaxOrders) :
                        Len(x[1]) + Len(x[2]) <= MaxOrders}}
    \cup ExampleSnapshots

QueryVolumes == (-1)..MaxQueryVolume

(***************************************************************************)
(* Actions on the order book.                                              *)
(***************************************************************************)
\* Market::order_book: the snapshot is converted into an OrderBook.
OrderBookInto ==
    /\ stage = "fetched"
    /\ book' \in OrderBookFrom(raw)
    /\ stage' = "built"
    /\ res' = [op |-> "from", warned |-> Warned(raw.buy_orders, "Buy")
                                          + Warned(raw.sell_orders, "Sell")]
    /\ UNCHANGED <<raw, nonceVars, rawVars, botVars>>

\* A slip: the query takes the best level off each side of the book.
SpreadToFillTaking(volume) ==
    /\ stage = "built"
    /\ res' = [op |-> "spread_to_fill", volume |-> volume,
               result |-> spread_to_fill(book, volume)]
    /\ book' = [buys  |-> IF book.buys = <<>> THEN <<>> ELSE Tail(book.buys),
                sells |-> IF book.sells = <<>> THEN <<>> ELSE Tail(book.sells)]
    /\ UNCHANGED <<raw, stage, nonceVars, rawVars, botVars>>

\* spread_to_fill(&self, volume)
SpreadToFill(volume) ==
    /\ stage = "built"
    /\ res' = [op |-> "spread_to_fill", volume |-> volume,
               result |-> spread_to_fill(book, volume)]
    /\ UNCHANGED <<raw, stage, book, nonceVars, rawVars, botVars>>

\* price_to_fill_buy_order(&self, volume)
PriceToFillBuyOrder(volume) ==
    /\ stage = "built"
    /\ res' = [op |-> "price_to_fill_buy_order", volume |-> volume,
               result |-> price_to_fill_buy_order(book, volume)]
    /\ UNCHANGED <<raw, stage, book, nonceVars, rawVars, botVars>>

\* price_to_fill_sell_order(&self, volume)
PriceToFillSellOrder(volume) ==
    /\ stage = "built"
    /\ res' = [op |-> "price_to_fill_sell_order", volume |-> volume,
               result |-> price_to_fill_sell_order(book, volume)]
    /\ UNCHANGED <<raw, stage, book, nonceVars, rawVars, botVars>>

BookInit ==
    /\ raw \in Snapshots
    /\ stage = "fetched"
    /\ book = [buys |-> <<>>, sells |-> <<>>]
    /\ res = NoRes

InitBook == NonceInit /\ BookInit /\ RawIdle /\ BotIdle

NextBook ==
    \/ OrderBookInto
    \/ \E volume \in QueryVolumes : SpreadToFill(volume)
    \/ \E volume \in QueryVolumes : PriceToFillBuyOrder(volume)
    \/ \E volume \in QueryVolumes : PriceToFillSellOrder(volume)

SpecBook == InitBook /\ [][NextBook]_vars

(***************************************************************************)
(* What the claims about the fill price are stated with.                   *)
(***************************************************************************)
RECURSIVE SumVolume(_)
SumVolume(v) == IF v = <<>> THEN 0 ELSE Head(v).volume + SumVolume(Tail(v))

Min(a, b) == IF a < b THEN a ELSE b
Max(a, b) == IF a > b THEN a ELSE b

\* What a fill of `volume` takes from level i of v, best first: the level's
\* volume, capped by what the levels before it have left to fill.
Taken(v, i, volume) == Min(v[i].volume, Max(0, volume - SumVolume(SubSeq(v, 1, i - 1))))

RECURSIVE CostFrom(_, _, _)
CostFrom(v, i, volume) ==
    IF i > Len(v) THEN 0 ELSE Taken(v, i, volume) * v[i].price + CostFrom(v, i + 1, volume)

\* total_cost / V on the side v.
FillPrice(v, volume) == DecimalDiv(CostFrom(v, 1, volume), volume)

Levels(v) == [i \in 1..Len(v) |-> <<v[i].price, v[i].volume>>]

IsPriceQuery == res.op \in {"price_to_fill_buy_order", "price_to_fill_sell_order"}
\* The side the query of res walks.
Walked == IF res.op = "price_to_fill_buy_order" THEN book.sells ELSE book.buys

(***************************************************************************)
(* C3.  For every book and every volume V > 0 the matching side can fill,  *)
(* price_to_fill returns total_cost / V, total_cost being the cost of      *)
(* taking the levels best first, whole while more remains than the level   *)
(* holds, then the rest at the next level's price.  Sells [{100,2},        *)
(* {110,3}] and a buy of 4 give 105.                                       *)
(***************************************************************************)
C3_FillPriceIsCostOverVolume ==
    /\ (IsPriceQuery /\ res.volume > 0 /\ SumVolume(Walked) >= res.volume)
          => /\ res.result.kind = "Ok"
             /\ res.result.val = FillPrice(Walked, res.volume)
    /\ (/\ res.op = "price_to_fill_buy_order"
        /\ res.volume = 4
        /\ Levels(book.sells) = <<<<100, 2>>, <<110, 3>>>>)
          => res.result.kind = "Ok" /\ res.result.val = [num |-> 105, den |-> 1]

C3_Witness ==
    /\ res.op = "price_to_fill_buy_order"
    /\ res.volume = 4
    /\ Levels(book.sells) = <<<<100, 2>>, <<110, 3>>>>
    /\ res.result.kind = "Ok"
    /\ res.result.val = [num |-> 105, den |-> 1]

(***************************************************************************)
(* C4.  For every book and every volume V > 0, price_to_fill returns an    *)
(* error, and no price, exactly when the summed volume of the matching     *)
(* side is less than V; when the sum equals V the fill succeeds.  One      *)
(* offer {100,5}: buy 2 gives 100, buy 5 gives 100, buy 6 the error.       *)
(***************************************************************************)
C4_ErrorIffTooShallow ==
    /\ (IsPriceQuery /\ res.volume > 0)
          => /\ res.result.kind \in {"Ok", "Err"}
             /\ res.result.kind = "Err" <=> SumVolume(Walked) < res.volume
    /\ (res.op = "price_to_fill_buy_order" /\ Levels(book.sells) = <<<<100, 5>>>>)
          => /\ res.volume \in {2, 5}
                  => res.result.kind = "Ok" /\ res.result.val = [num |-> 100, den |-> 1]
             /\ res.volume = 6 => res.result.kind = "Err"

C4_Witness ==
    /\ res.op = "price_to_fill_buy_order"
    /\ Levels(book.sells) = <<<<100, 5>>>>
    /\ res.volume = 6
    /\ res.result.kind = "Err"

(***************************************************************************)
(* C5.  price_to_fill, and so price_to_fill_buy_order,                     *)
(* price_to_fill_sell_order and spread_to_fill, called with volume 0       *)
(* returns an input-validation error for every book, the empty one         *)
(* included; it never divides by zero.                                     *)
(***************************************************************************)
C5_ZeroVolumeIsAnError ==
    ((IsPriceQuery \/ res.op = "spread_to_fill") /\ res.volume = 0)
        => res.result.kind = "Err"

(***************************************************************************)
(* C6.  price_to_fill called with a negative volume is rejected with an    *)
(* error, for every book; it never returns Ok with a price.                *)
(***************************************************************************)
C6_NegativeVolumeIsAnError ==
    (IsPriceQuery /\ res.volume < 0) => res.result.kind = "Err"

(***************************************************************************)
(* C7.  As claimed: when both sides can fill the volume, spread_to_fill    *)
(* returns (buy_price, sell_price), the price of the market buy (walked    *)
(* over sells) first and the price of the market sell (walked over buys)   *)
(* second.                                                                 *)
(***************************************************************************)
BothSidesFill ==
    /\ res.op = "spread_to_fill"
    /\ res.volume > 0
    /\ SumVolume(book.sells) >= res.volume
    /\ SumVolume(book.buys) >= res.volume

C7_BuyPriceFirst ==
    BothSidesFill
        => /\ res.result.kind = "Ok"
           /\ res.result.val = <<FillPrice(book.sells, res.volume),
                                 FillPrice(book.buys, res.volume)>>

(***************************************************************************)
(* C7, amended.  When both sides can fill the volume, spread_to_fill       *)
(* returns (sell_price, buy_price): the price of the market sell (walked   *)
(* over buys, the bid) first and the price of the market buy (walked over  *)
(* sells, the ask) second.  Buys [{99,10}], sells [{101,10}], volume 1     *)
(* give (99, 101).                                                         *)
(***************************************************************************)
C7_SellPriceFirst ==
    /\ BothSidesFill
          => /\ res.result.kind = "Ok"
             /\ res.result.val = <<FillPrice(book.buys, res.volume),
                                   FillPrice(book.sells, res.volume)>>
    /\ (/\ res.op = "spread_to_fill"
        /\ res.volume = 1
        /\ Levels(book.buys) = <<<<99, 10>>>>
        /\ Levels(book.sells) = <<<<101, 10>>>>)
          => /\ res.result.kind = "Ok"
             /\ res.result.val = <<[num |-> 99, den |-> 1], [num |-> 101, den |-> 1]>>

C7_Witness ==
    /\ res.op = "spread_to_fill"
    /\ res.volume = 1
    /\ Levels(book.buys) = <<<<99, 10>>>>
    /\ Levels(book.sells) = <<<<101, 10>>>>
    /\ res.result.kind = "Ok"
    /\ res.result.val[1] # res.result.val[2]

(***************************************************************************)
(* C8.  spread_to_fill(V) returns an error whenever price_to_fill fails    *)
(* for at least one of the two sides at V, and returns a pair only when    *)
(* both sides have depth for V, its two prices being one of each side.     *)
(***************************************************************************)
C8_ErrorIfEitherSideFails ==
    /\ res.op = "spread_to_fill"
          => LET buy  == price_to_fill(book, res.volume, "Buy")
                 sell == price_to_fill(book, res.volume, "Sell")
             IN  /\ (buy.kind = "Err" \/ sell.kind = "Err") => res.result.kind = "Err"
                 /\ res.result.kind = "Ok" => buy.kind = "Ok" /\ sell.kind = "Ok"
    /\ (res.op = "spread_to_fill" /\ res.volume > 0)
        => /\ (SumVolume(book.sells) < res.volume \/ SumVolume(book.buys) < res.volume)
                  => res.result.kind = "Err"
           /\ res.result.kind = "Ok"
                  => /\ SumVolume(book.sells) >= res.volume
                     /\ SumVolume(book.buys) >= res.volume
                     /\ FillPrice(book.buys, res.volume) \in {res.result.val[1], res.result.val[2]}
                     /\ FillPrice(book.sells, res.volume) \in {res.result.val[1], res.result.val[2]}

\* The buy side of the query fills and the sell side does not.
C8_Witness ==
    /\ res.op = "spread_to_fill"
    /\ res.volume > 0
    /\ SumVolume(book.sells) >= res.volume
    /\ SumVolume(book.buys) < res.volume
    /\ book.buys # <<>>
    /\ res.result.kind = "Err"

(***************************************************************************)
(* C10.  For every raw snapshot, the OrderBook built from it has buys      *)
(* non-increasing in price and sells non-decreasing in price.              *)
(***************************************************************************)
C10_SidesSortedByPrice ==
    stage = "built"
        => /\ \A i \in 1..(Len(book.buys) - 1) : book.buys[i].price >= book.buys[i + 1].price
           /\ \A i \in 1..(Len(book.sells) - 1) : book.sells[i].price <= book.sells[i + 1].price

\* The bids arrived lowest first and the sort put the highest first.
C10_Witness ==
    /\ stage = "built"
    /\ Len(book.buys) = 2
    /\ book.buys[1].price > book.buys[2].price
    /\ PushOrders(raw.buy_orders, "Buy")[1].price < PushOrders(raw.buy_orders, "Buy")[2].price
    /\ Len(book.sells) = 1

(***************************************************************************)
(* What the claims about the construction are stated with.                 *)
(***************************************************************************)
\* The entries of the raw list of `side` that are levels: price and volume
\* present, order type of the side.
RawLevelsOf(side) ==
    LET list == IF side = "Buy" THEN raw.buy_orders ELSE raw.sell_orders
    IN  {i \in 1..Len(list) : /\ list[i].price.some
                              /\ list[i].volume.some
                              /\ list[i].order_type = OrderTypeOf(side)}

RawListOf(side) == IF side = "Buy" THEN raw.buy_orders ELSE raw.sell_orders
BookSide(side)  == IF side = "Buy" THEN book.buys ELSE book.sells

\* How many raw levels of `side` have the price and the volume, and how many
\* levels of the built side have them.
RawCount(side, price, volume) ==
    Cardinality({i \in RawLevelsOf(side) : /\ RawListOf(side)[i].price.val = price
                                           /\ RawListOf(side)[i].volume.val = volume})
BookCount(side, price, volume) ==
    Cardinality({i \in 1..Len(BookSide(side)) : /\ BookSide(side)[i].price = price
                                                /\ BookSide(side)[i].volume = volume})

\* Every price and volume that occurs in the raw lists or in the built sides.
SeenPrices ==
    {RawListOf(sd)[i].price.val : <<sd, i>> \in
        {x \in {"Buy", "Sell"} \X (1..MaxOrders) : x[2] <= Len(RawListOf(x[1]))}}
    \cup {BookSide(sd)[i].price : <<sd, i>> \in
        {x \in {"Buy", "Sell"} \X (1..MaxOrders) : x[2] <= Len(BookSide(x[1]))}}
SeenVolumes ==
    {RawListOf(sd)[i].volume.val : <<sd, i>> \in
        {x \in {"Buy", "Sell"} \X (1..MaxOrders) : x[2] <= Len(RawListOf(x[1]))}}
    \cup {BookSide(sd)[i].volume : <<sd, i>> \in
        {x \in {"Buy", "Sell"} \X (1..MaxOrders) : x[2] <= Len(BookSide(x[1]))}}

\* Each raw level is one level of the built side, and nothing else is.
LevelsKept ==
    \A sd \in {"Buy", "Sell"} :
        /\ Len(BookSide(sd)) = Cardinality(RawLevelsOf(sd))
        /\ \A p \in SeenPrices, v \in SeenVolumes : BookCount(sd, p, v) = RawCount(sd, p, v)

\* The levels of v at one price, in the order of v.
AtPrice(v, price) == SelectSeq(v, LAMBDA o : o.price = price)

(***************************************************************************)
(* C11.  For every raw snapshot, the built OrderBook has buys strictly     *)
(* descending and sells strictly ascending in price: no two adjacent       *)
(* levels of a side have equal price, also when the snapshot holds several *)
(* orders at one price.  Refuted by two orders at one price.               *)
(***************************************************************************)
C11_SidesStrictlySorted ==
    stage = "built"
        => /\ \A i \in 1..(Len(book.buys) - 1) : book.buys[i].price > book.buys[i + 1].price
           /\ \A i \in 1..(Len(book.sells) - 1) : book.sells[i].price < book.sells[i + 1].price

(***************************************************************************)
(* C11, amended.  Every order of the snapshot is a level of its own, so    *)
(* the orders at one price are adjacent levels of equal price: buys are    *)
(* descending and sells ascending in price, strictly between levels of     *)
(* different price, and a side holds as many levels at a price as the      *)
(* snapshot holds orders at it.                                            *)
(***************************************************************************)
C11_SortedWithEqualPricesKept ==
    stage = "built"
        => /\ \A i \in 1..(Len(book.buys) - 1) : book.buys[i].price >= book.buys[i + 1].price
           /\ \A i \in 1..(Len(book.sells) - 1) : book.sells[i].price <= book.sells[i + 1].price
           /\ \A sd \in {"Buy", "Sell"} : \A p \in SeenPrices :
                 Len(AtPrice(BookSide(sd), p))
                     = Cardinality({i \in RawLevelsOf(sd) : RawListOf(sd)[i].price.val = p})

\* Two bids at one price, built into two adjacent levels above a lower bid.
C11_Witness ==
    /\ stage = "built"
    /\ Len(book.buys) = 3
    /\ book.buys[1].price = book.buys[2].price
    /\ book.buys[2].price > book.buys[3].price

(***************************************************************************)
(* C12.  When the snapshot holds several levels of equal price on one      *)
(* side, the built book keeps them in their original relative order, for   *)
(* buys as well as for sells.                                              *)
(***************************************************************************)
C12_TiesKeepOriginalOrder ==
    stage = "built"
        => \A p \in SeenPrices :
              /\ AtPrice(book.buys, p) = AtPrice(PushOrders(raw.buy_orders, "Buy"), p)
              /\ AtPrice(book.sells, p) = AtPrice(PushOrders(raw.sell_orders, "Sell"), p)

(***************************************************************************)
(* C13.  Building an OrderBook from a raw snapshot never fails: a raw      *)
(* entry whose price or volume is missing is dropped (never a level of     *)
(* price zero or volume zero), every other entry of the side's order type  *)
(* is kept, and an empty or fully malformed snapshot gives a book with     *)
(* empty sides.                                                            *)
(***************************************************************************)
C13_MalformedLevelsDropped ==
    /\ stage = "fetched" => OrderBookFrom(raw) # {}
    /\ stage = "built"
          => /\ LevelsKept
             /\ \A sd \in {"Buy", "Sell"} : \A i \in 1..Len(BookSide(sd)) :
                   /\ BookSide(sd)[i].price # 0
                   /\ BookSide(sd)[i].volume # 0
                   /\ BookSide(sd)[i].position = sd
             /\ (RawLevelsOf("Buy") = {} /\ RawLevelsOf("Sell") = {})
                   => book = [buys |-> <<>>, sells |-> <<>>]

\* A snapshot with a null price, a null volume and one level: the level alone
\* is in the book.
C13_Witness ==
    /\ stage = "built"
    /\ Len(raw.buy_orders) = 3
    /\ \E i \in 1..3 : ~raw.buy_orders[i].price.some
    /\ \E i \in 1..3 : ~raw.buy_orders[i].volume.some
    /\ Len(book.buys) = 1
    /\ book.sells = <<>>

(***************************************************************************)
(* C14.  price_to_fill for a Buy walks only the sells and for a Sell only  *)
(* the buys: the result of a buy query is the same whatever the buys list  *)
(* holds, and the result of a sell query the same whatever the sells list  *)
(* holds.                                                                  *)
(***************************************************************************)
\* Lists put in the place of the side a query must not read.
OtherSides ==
    {<<>>, book.buys, book.sells,
     <<[position |-> "Buy", price |-> 1, volume |-> MaxQueryVolume]>>}

C14_QueryWalksOppositeSide ==
    /\ res.op = "price_to_fill_buy_order"
          => \A b \in OtherSides :
                price_to_fill_buy_order([book EXCEPT !.buys = b], res.volume) = res.result
    /\ res.op = "price_to_fill_sell_order"
          => \A s \in OtherSides :
                price_to_fill_sell_order([book EXCEPT !.sells = s], res.volume) = res.result

\* A buy filled from the offers of a book whose bids would give another price.
C14_Witness ==
    /\ res.op = "price_to_fill_buy_order"
    /\ res.result.kind = "Ok"
    /\ book.buys # <<>>
    /\ res.result = price_to_fill(book, res.volume, "Buy")
    /\ res.result # price_to_fill([book EXCEPT !.sells = book.buys], res.volume, "Buy")

(***************************************************************************)
(* C27.  In every built OrderBook each level of buys has position Buy and  *)
(* each level of sells has position Sell: a raw entry whose order type is  *)
(* not that of the list it arrived in is dropped with a warning and is     *)
(* never moved to the other side.                                          *)
(***************************************************************************)
\* The entries of the raw list of `side` that have a price and a volume and
\* the order type of the other side.
Misplaced(side) ==
    {i \in 1..Len(RawListOf(side)) : /\ RawListOf(side)[i].price.some
                                     /\ RawListOf(side)[i].volume.some
                                     /\ RawListOf(side)[i].order_type = OrderTypeOf(Other(side))}

C27_LevelsStayOnTheirSide ==
    /\ stage = "built"
          => \A sd \in {"Buy", "Sell"} :
                /\ \A i \in 1..Len(BookSide(sd)) : BookSide(sd)[i].position = sd
                /\ Len(BookSide(sd)) <= Len(RawListOf(sd)) - Cardinality(Misplaced(sd))
                /\ Len(BookSide(sd)) = Cardinality(RawLevelsOf(sd))
    /\ res.op = "from"
          => res.warned = Cardinality(Misplaced("Buy")) + Cardinality(Misplaced("Sell"))

\* An offer in the list of bids beside a bid, and no offers: the bid alone is in
\* the book, the sells are empty and one warning was given.
C27_Witness ==
    /\ stage = "built"
    /\ res.op = "from"
    /\ res.warned = 1
    /\ Cardinality(Misplaced("Buy")) = 1
    /\ raw.sell_orders = <<>>
    /\ Len(book.buys) = 1
    /\ book.sells = <<>>

(***************************************************************************)
(* C28.  Each side of a built OrderBook is a permutation of the raw        *)
(* entries retained for that side: the levels of the side and the retained *)
(* entries correspond one to one, so that none is lost or duplicated, and  *)
(* each level has the price and the volume of its raw entry.               *)
(***************************************************************************)
\* The one-to-one correspondences between the levels of the built side and
\* the retained entries of its raw list that keep price and volume.
Correspondences(side) ==
    {f \in [1..Len(BookSide(side)) -> RawLevelsOf(side)] :
        /\ \A i, j \in 1..Len(BookSide(side)) : f[i] = f[j] => i = j
        /\ \A k \in RawLevelsOf(side) : \E i \in 1..Len(BookSide(side)) : f[i] = k
        /\ \A i \in 1..Len(BookSide(side)) :
              /\ BookSide(side)[i].price  = RawListOf(side)[f[i]].price.val
              /\ BookSide(side)[i].volume = RawListOf(side)[f[i]].volume.val}

C28_SidesPermuteRetainedEntries ==
    stage = "built" => \A sd \in {"Buy", "Sell"} : Correspondences(sd) # {}

\* Three offers in the snapshot, the dearest first and one of the others
\* without a price: the book has the two retained ones, the cheaper first, and
\* its first level corresponds to the last entry of the snapshot.
C28_Witness ==
    /\ stage = "built"
    /\ Len(raw.sell_orders) = 3
    /\ RawLevelsOf("Sell") = {1, 3}
    /\ raw.sell_orders[1].price.val > raw.sell_orders[3].price.val
    /\ Len(book.sells) = 2
    /\ book.sells[1].price < book.sells[2].price
    /\ Correspondences("Sell") # {}
    /\ \A f \in Correspondences("Sell") : f[1] = 3 /\ f[2] = 1

(***************************************************************************)
(* C29.  On a built book the fill price is monotone in the volume asked    *)
(* for: for 0 < V1 <= V2, both fillable, the buy price for V1 is at most   *)
(* the buy price for V2 and the sell price for V1 at least the sell price  *)
(* for V2; every buy price is at least the best offer and every sell price *)
(* at most the best bid.                                                   *)
(***************************************************************************)
\* a <= b for two quotients with positive denominators.
PriceLe(a, b) == a.num * b.den <= b.num * a.den
\* The price of a level as a quotient.
LevelPrice(order) == [num |-> order.price, den |-> 1]

C29_FillPriceMonotoneInVolume ==
    /\ (res.op = "price_to_fill_buy_order" /\ res.volume > 0 /\ res.result.kind = "Ok")
          => /\ PriceLe(LevelPrice(book.sells[1]), res.result.val)
             /\ \A V1 \in 1..res.volume :
                   price_to_fill_buy_order(book, V1).kind = "Ok"
                      => PriceLe(price_to_fill_buy_order(book, V1).val, res.result.val)
    /\ (res.op = "price_to_fill_sell_order" /\ res.volume > 0 /\ res.result.kind = "Ok")
          => /\ PriceLe(res.result.val, LevelPrice(book.buys[1]))
             /\ \A V1 \in 1..res.volume :
                   price_to_fill_sell_order(book, V1).kind = "Ok"
                      => PriceLe(res.result.val, price_to_fill_sell_order(book, V1).val)

\* A buy that takes the best offer whole and part of a dearer one: the price is
\* above the best offer and above the price of a buy within the best offer.
C29_Witness ==
    /\ res.op = "price_to_fill_buy_order"
    /\ res.result.kind = "Ok"
    /\ Len(book.sells) >= 2
    /\ book.sells[1].price < book.sells[2].price
    /\ res.volume > book.sells[1].volume
    /\ price_to_fill_buy_order(book, 1).kind = "Ok"
    /\ ~PriceLe(res.result.val, price_to_fill_buy_order(book, 1).val)
    /\ ~PriceLe(res.result.val, LevelPrice(book.sells[1]))

(***************************************************************************)
(* C19.  An OrderBook is not changed by its queries: after any sequence of *)
(* spread_to_fill, price_to_fill_buy_order and price_to_fill_sell_order    *)
(* calls, successful or failing, buys and sells hold the levels of the     *)
(* construction in the same order, and asking the same query again gives   *)
(* the same result.                                                        *)
(***************************************************************************)
\* What the query `op` returns for the book `self`.
QueryResult(op, self, volume) ==
    CASE op = "spread_to_fill"           -> spread_to_fill(self, volume)
      [] op = "price_to_fill_buy_order"  -> price_to_fill_buy_order(self, volume)
      [] op = "price_to_fill_sell_order" -> price_to_fill_sell_order(self, volume)

C19_QueriesLeaveBookUnchanged ==
    [][stage = "built"
          => /\ book' = book
             /\ raw' = raw
             /\ stage' = "built"
             /\ res'.op # "none"
             /\ res'.result = QueryResult(res'.op, book', res'.volume)]_vars

\* A failing sell query on a book that still holds the bids it was built with.
C19_Witness ==
    /\ stage = "built"
    /\ res.op = "price_to_fill_sell_order"
    /\ res.result.kind = "Err"
    /\ Len(book.buys) = 2
    /\ book \in OrderBookFrom(raw)

(***************************************************************************)
(* The raw book of market/public/orderbook.rs.  An f32 price or volume is  *)
(* an integer number of thousandths here; f32 rounding is not modelled.    *)
(***************************************************************************)
\* Levels on one side of the raw book.
MaxRawLevels == 2

\* Thousandths in one unit.
Thousandths == 10 * 10 * 10

RECURSIVE Pow10(_)
Pow10(n) == IF n = 0 THEN 1 ELSE 10 * Pow10(n - 1)

\* f32::trunc of x / q: towards zero.
TruncDiv(x, q) == IF x < 0 THEN -((-x) \div q) ELSE x \div q

\* truncate_to_decimal_places(x, n), n <= 3: multiply by 10 n times, truncate,
\* divide by 10 n times.
truncate_to_decimal_places(x, n) ==
    TruncDiv(x * Pow10(n), Thousandths) * (Thousandths \div Pow10(n))

truncate_to_cents(x) == truncate_to_decimal_places(x, 2)

\* v with x put after the last element whose price is not greater than x's.
RECURSIVE InsertByPrice(_, _)
InsertByPrice(v, x) ==
    IF v = <<>> THEN <<x>>
    ELSE IF Head(v).price > x.price THEN <<x>> \o v
    ELSE <<Head(v)>> \o InsertByPrice(Tail(v), x)

\* slice::sort_by on a.price.partial_cmp(&b.price): stable, ascending.
RECURSIVE sort_by_price(_)
sort_by_price(v) ==
    IF v = <<>> THEN <<>>
    ELSE InsertByPrice(sort_by_price(SubSeq(v, 1, Len(v) - 1)), v[Len(v)])

SeqReverse(v) == [i \in 1..Len(v) |-> v[Len(v) + 1 - i]]

\* OrderBook::sort: offers ascending; bids ascending, then reversed.
sort(self) ==
    [buy_orders  |-> SeqReverse(sort_by_price(self.buy_orders)),
     sell_orders |-> sort_by_price(self.sell_orders)]

\* OrderBook::bid_offer_spread(&mut self): the book is sorted, then first() of
\* each side is unwrapped, which panics on an empty side.
bid_offer_spread(self) ==
    LET sorted == sort(self)
    IN  [self   |-> sorted,
         result |->
            IF sorted.buy_orders = <<>> \/ sorted.sell_orders = <<>>
            THEN Panic("unwrap on None")
            ELSE LET highest_bid  == sorted.buy_orders[1].price
                     lowest_offer == sorted.sell_orders[1].price
                 IN  Ok([highest_bid  |-> highest_bid,
                         lowest_offer |-> lowest_offer,
                         spread       |-> truncate_to_cents(lowest_offer - highest_bid)])]

\* OrderBook::price_to_fill of the raw book
raw_price_to_fill(self, order_type, volume) == 0

RawPrices  == {1500000, 1550000, 1550005}
RawVolumes == {900, 1000}

RawLevels(order_type) ==
    {[order_type |-> order_type, price |-> p, volume |-> v] : p \in RawPrices, v \in RawVolumes}

RawSides(order_type) == UNION {[1..k -> RawLevels(order_type)] : k \in 0..MaxRawLevels}

\* pub fn sort(&mut self)
RawSort ==
    /\ rawBook' = sort(rawBook)
    /\ rawRes' = [op |-> "sort"]
    /\ UNCHANGED <<nonceVars, bookVars, botVars>>

\* pub fn bid_offer_spread(&mut self) -> String
BidOfferSpread ==
    /\ LET r == bid_offer_spread(rawBook)
       IN  /\ rawBook' = r.self
           /\ rawRes' = [op |-> "bid_offer_spread", result |-> r.result]
    /\ UNCHANGED <<nonceVars, bookVars, botVars>>

\* pub fn price_to_fill(&self, order_type, volume) -> f32
RawPriceToFill(order_type, volume) ==
    /\ rawRes' = [op |-> "price_to_fill", order_type |-> order_type, volume |-> volume,
                  result |-> Ok(raw_price_to_fill(rawBook, order_type, volume))]
    /\ UNCHANGED <<rawBook, nonceVars, bookVars, botVars>>

InitRaw ==
    /\ NonceInit
    /\ BookIdle
    /\ rawBook \in [buy_orders : RawSides("buy"), sell_orders : RawSides("sell")]
    /\ rawRes = NoRes
    /\ BotIdle

NextRaw ==
    \/ RawSort
    \/ BidOfferSpread
    \/ \E order_type \in {"buy", "sell"}, volume \in RawVolumes :
          RawPriceToFill(order_type, volume)

SpecRaw == InitRaw /\ [][NextRaw]_vars

(***************************************************************************)
(* C9.  The best-bid/best-ask spread query on a book whose buys or sells   *)
(* list is empty returns a "no data" result; it never panics and never     *)
(* returns a zero or default spread.                                       *)
(***************************************************************************)
C9_EmptySideIsNoData ==
    (/\ rawRes.op = "bid_offer_spread"
     /\ (rawBook.buy_orders = <<>> \/ rawBook.sell_orders = <<>>))
        => rawRes.result.kind = "NoData"

(***************************************************************************)
(* C23.  price_to_fill of market/public/orderbook.rs returns the           *)
(* volume-weighted price over the best-first levels of the requested side: *)
(* for buys [{1500, 0.9}, {1550, 1.0}] and volume 1.0 the result is 1545,  *)
(* and the result depends on the levels and on the volume.                 *)
(***************************************************************************)
C23_RawPriceToFillIsWeightedPrice ==
    (/\ rawRes.op = "price_to_fill"
     /\ rawRes.order_type = "buy"
     /\ rawRes.volume = Thousandths
     /\ rawBook.buy_orders = <<[order_type |-> "buy", price |-> 1500 * Thousandths,
                                volume |-> 900],
                               [order_type |-> "buy", price |-> 1550 * Thousandths,
                                volume |-> Thousandths]>>)
        => rawRes.result.val = 1545 * Thousandths

(***************************************************************************)
(* The spread bot of bot/spread.rs: run samples the order book every       *)
(* SAMPLE_PERIOD_SECS seconds, keeps the extremes of the spread and four   *)
(* counters in a MinMax, and writes an entry to its log file once more     *)
(* than LOG_ENTRY_PERIOD_SECS seconds of samples have been taken.          *)
(***************************************************************************)
SAMPLE_PERIOD_SECS    == 5
LOG_ENTRY_PERIOD_SECS == 3600

\* Decimal arithmetic and comparison on fractions.
DecimalLt(a, b)  == a.num * b.den < b.num * a.den
DecimalAdd(a, b) == DecimalDiv(a.num * b.den + b.num * a.den, a.den * b.den)
DecimalSub(a, b) == DecimalDiv(a.num * b.den - b.num * a.den, a.den * b.den)
DecimalQuo(a, b) == DecimalDiv(a.num * b.den, a.den * b.num)

\* Decimal::from_str("0.00x")
FromStrThousandths(x) == DecimalDiv(x, 10 * 10 * 10)

\* num::spread_percent: the spread ask - bid and the spread as a fraction of
\* the mid price (bid + ask) / 2.
spread_percent(bid, ask) ==
    LET spread    == DecimalSub(ask, bid)
        mid_price == DecimalQuo(DecimalAdd(bid, ask), [num |-> 2, den |-> 1])
    IN  <<spread, DecimalQuo(spread, mid_price)>>

\* A slip: the tests of the counters not chained with else.
record_spread_unchained(v, bid, ask) ==
    LET sp      == spread_percent(bid, ask)
        spread  == sp[1]
        percent == sp[2]
        v1 == IF DecimalLt(spread, v.min_spread) THEN [v EXCEPT !.min_spread = spread] ELSE v
        v2 == IF DecimalLt(v1.max_spread, spread) THEN [v1 EXCEPT !.max_spread = spread] ELSE v1
        v3 == IF DecimalLt(percent, v2.min_percent)
              THEN [v2 EXCEPT !.min_percent = percent] ELSE v2
        v4 == IF DecimalLt(v3.max_percent, percent)
              THEN [v3 EXCEPT !.max_percent = percent] ELSE v3
        v5 == IF DecimalLt(percent, FromStrThousandths(2))
              THEN [v4 EXCEPT !.less_than_two = @ + 1] ELSE v4
        v6 == IF DecimalLt(percent, FromStrThousandths(3))
              THEN [v5 EXCEPT !.two_to_three = @ + 1] ELSE v5
    IN  IF DecimalLt(percent, FromStrThousandths(4))
        THEN [v6 EXCEPT !.three_to_four = @ + 1]
        ELSE [v6 EXCEPT !.greater_than_four = @ + 1]

\* update_values from the spread on: the extremes and the counters.
record_spread(v, bid, ask) ==
    LET sp      == spread_percent(bid, ask)
        spread  == sp[1]
        percent == sp[2]
        v1 == IF DecimalLt(spread, v.min_spread) THEN [v EXCEPT !.min_spread = spread] ELSE v
        v2 == IF DecimalLt(v1.max_spread, spread) THEN [v1 EXCEPT !.max_spread = spread] ELSE v1
        v3 == IF DecimalLt(percent, v2.min_percent)
              THEN [v2 EXCEPT !.min_percent = percent] ELSE v2
        v4 == IF DecimalLt(v3.max_percent, percent)
              THEN [v3 EXCEPT !.max_percent = percent] ELSE v3
    IN  IF DecimalLt(percent, FromStrThousandths(2))
        THEN [v4 EXCEPT !.less_than_two = @ + 1]
        ELSE IF DecimalLt(percent, FromStrThousandths(3))
        THEN [v4 EXCEPT !.two_to_three = @ + 1]
        ELSE IF DecimalLt(percent, FromStrThousandths(4))
        THEN [v4 EXCEPT !.three_to_four = @ + 1]
        ELSE [v4 EXCEPT !.greater_than_four = @ + 1]

\* A slip: a sample that failed entered as a spread of zero.
update_values_zero_fallback(orderbook, v) ==
    LET r == spread_to_fill(orderbook, 1)
    IN  IF r.kind = "Err"
        THEN [result |-> r, logged |-> 1,
              v |-> record_spread(v, [num |-> 1, den |-> 1], [num |-> 1, den |-> 1])]
        ELSE [result |-> r, logged |-> 0, v |-> record_spread(v, r.val[1], r.val[2])]

\* update_values once the order book is in hand: the result of spread_to_fill
\* for the volume 1, the lines logged as failed and the MinMax after the call.
update_values(orderbook, v) ==
    LET r == spread_to_fill(orderbook, 1)
    IN  IF r.kind = "Err"
        THEN [result |-> r, logged |-> 1, v |-> v]
        ELSE [result |-> r, logged |-> 0, v |-> record_spread(v, r.val[1], r.val[2])]

\* log_entry: the four counters (after the time of day, which is left out).
log_entry(v) == <<v.less_than_two, v.two_to_three, v.three_to_four, v.greater_than_four>>

\* write_to_file: the file after the call and whether the call returned Ok.
\* Failing to open the file is an Err; failing to write the line is logged only.
write_to_file(f, v, io) ==
    CASE io = "Ok"       -> [file |-> Append(f, log_entry(v)), ok |-> TRUE]
      [] io = "WriteErr" -> [file |-> f, ok |-> TRUE]
      [] io = "OpenErr"  -> [file |-> f, ok |-> FALSE]

IoOutcomes == {"Ok", "WriteErr", "OpenErr"}

\* The snapshots the bot samples: a bid at 1000 and an offer 1, 3, 4 or 10
\* above it, and snapshots with a side that is empty or holds no level.
BotAsks == {1001, 1003, 1004, 1010}
BotSnapshots ==
    {[buy_orders  |-> <<PublicOrder("Buy", Some(1000), Some(2))>>,
      sell_orders |-> <<PublicOrder("Sell", Some(a), Some(2))>>] : a \in BotAsks}
    \cup {[buy_orders  |-> <<PublicOrder("Buy", Some(1000), Some(2))>>,
           sell_orders |-> <<>>],
          [buy_orders  |-> <<>>,
           sell_orders |-> <<PublicOrder("Sell", None, Some(2))>>]}

\* The loop counters the runs of the model start at: the start of run, and the
\* counter after samples that all failed, three samples before the file is written.
StartCounters == {0, LOG_ENTRY_PERIOD_SECS \div SAMPLE_PERIOD_SECS - 1}

\* run, lines 22 and 23: the first entry is written.
WriteHeader(io) ==
    /\ pc = "start"
    /\ LET w == write_to_file(file, values, io)
       IN  /\ file' = w.file
           /\ pc' = IF w.ok THEN "update" ELSE "returned"
    /\ UNCHANGED <<values, loop_counter, info, samples, nonceVars, bookVars, rawVars>>

\* update_values: the order book is fetched (the bot panics when that fails) and
\* the spread for the volume 1 is recorded, or logged as failed.
UpdateValues(fetch, snapshot) ==
    /\ pc = "update"
    /\ samples < MaxSamples
    /\ samples' = samples + 1
    /\ IF fetch = "Err"
       THEN /\ pc' = "panicked"
            /\ res' = [op |-> "order_book", volume |-> 1,
                       result |-> Panic("failed to get orderbook")]
            /\ UNCHANGED <<raw, stage, book, values, info>>
       ELSE /\ raw' = snapshot
            /\ stage' = "built"
            /\ book' \in OrderBookFrom(snapshot)
            /\ LET u == update_values(book', values)
               IN  /\ res' = [op |-> "spread_to_fill", volume |-> 1, result |-> u.result]
                   /\ values' = u.v
                   /\ info' = info + u.logged
            /\ pc' = "sampled"
    /\ UNCHANGED <<loop_counter, file, nonceVars, rawVars>>

\* run, lines 29 to 40: the entry is written and the MinMax started afresh once
\* the samples span more than LOG_ENTRY_PERIOD_SECS, and the bot sleeps.
LoopEnd(io) ==
    /\ pc = "sampled"
    /\ LET time_running == loop_counter * SAMPLE_PERIOD_SECS
       IN  IF time_running > LOG_ENTRY_PERIOD_SECS
           THEN LET w == write_to_file(file, values, io)
                IN  /\ file' = w.file
                    /\ IF w.ok
                       THEN values' = MinMaxDefault /\ loop_counter' = 0 /\ pc' = "update"
                       ELSE UNCHANGED <<values, loop_counter>> /\ pc' = "returned"
           ELSE /\ io = "Ok"
                /\ loop_counter' = loop_counter + 1
                /\ pc' = "update"
                /\ UNCHANGED <<values, file>>
    /\ UNCHANGED <<info, samples, nonceVars, bookVars, rawVars>>

\* run after Market::with_read_only, with loop counter k.
BotAfter(k) ==
    /\ pc = IF k = 0 THEN "start" ELSE "update"
    /\ values = MinMaxDefault
    /\ loop_counter = k
    /\ file = IF k = 0 THEN <<>> ELSE <<log_entry(MinMaxDefault)>>
    /\ info = 0
    /\ samples = 0

InitBot ==
    /\ now = 0
    /\ \E read \in ApiKeys :
          privates = <<PrivateNew(nonce(now), read.api_key, read.api_secret)>>
    /\ origin = <<[how |-> "new", seed |-> nonce(now)]>>
    /\ sent = <<>>
    /\ last = NoCall
    /\ BookIdle
    /\ RawIdle
    /\ \E k \in StartCounters : BotAfter(k)

NextBot ==
    \/ \E io \in IoOutcomes : WriteHeader(io)
    \/ \E fetch \in Outcomes, snapshot \in BotSnapshots : UpdateValues(fetch, snapshot)
    \/ \E io \in IoOutcomes : LoopEnd(io)

SpecBot == InitBot /\ [][NextBot]_vars

(***************************************************************************)
(* C20.  In the spread bot, when spread_to_fill returns an error for a     *)
(* sample, update_values logs it and returns with the MinMax unchanged     *)
(* (the extremes of spread and percent and the four counters): no default  *)
(* or fallback spread enters the statistics, and the loop goes on to the   *)
(* next sample.                                                            *)
(***************************************************************************)
C20_FailedSampleIsSkipped ==
    [][/\ (/\ samples' = samples + 1
           /\ res'.op = "spread_to_fill"
           /\ res'.result.kind = "Err")
          => /\ values' = values
             /\ info' = info + 1
             /\ pc' = "sampled"
             /\ loop_counter' = loop_counter
             /\ file' = file
       /\ (/\ pc = "sampled"
           /\ res.result.kind = "Err"
           /\ loop_counter * SAMPLE_PERIOD_SECS <= LOG_ENTRY_PERIOD_SECS)
          => /\ pc' = "update"
             /\ loop_counter' = loop_counter + 1
             /\ values' = values]_vars

\* A sample that failed after a sample that was recorded.
C20_Witness ==
    /\ pc = "sampled"
    /\ res.op = "spread_to_fill"
    /\ res.result.kind = "Err"
    /\ info = 1
    /\ samples = 2
    /\ values # MinMaxDefault

(***************************************************************************)
(* C30.  In the spread bot every sample that succeeds adds one to exactly  *)
(* one of the four percentage counters and no other step adds to them, a   *)
(* sample that fails leaves them, and the reset sets them to zero: their   *)
(* sum is the number of samples that succeeded since the reset.  Once a    *)
(* sample has succeeded, min_spread <= max_spread and min_percent <=       *)
(* max_percent.                                                            *)
(***************************************************************************)
CounterNames == {"less_than_two", "two_to_three", "three_to_four", "greater_than_four"}
CounterSum(v) == v.less_than_two + v.two_to_three + v.three_to_four + v.greater_than_four

C30_OneCounterPerSuccessfulSample ==
    [][/\ (samples' = samples + 1 /\ res'.op = "spread_to_fill" /\ res'.result.kind = "Ok")
          => /\ CounterSum(values') = CounterSum(values) + 1
             /\ \E c \in CounterNames :
                   /\ values'[c] = values[c] + 1
                   /\ \A o \in CounterNames \ {c} : values'[o] = values[o]
       /\ (samples' = samples + 1 /\ ~(res'.op = "spread_to_fill" /\ res'.result.kind = "Ok"))
          => \A c \in CounterNames : values'[c] = values[c]
       /\ samples' = samples
          => \/ \A c \in CounterNames : values'[c] = values[c]
             \/ /\ pc = "sampled"
                /\ loop_counter' = 0
                /\ CounterSum(values') = 0
       /\ CounterSum(values') > 0
          => /\ ~DecimalLt(values'.max_spread, values'.min_spread)
             /\ ~DecimalLt(values'.max_percent, values'.min_percent)]_vars

\* Two samples recorded in different counters around one that failed, with
\* different spreads.
C30_Witness ==
    /\ pc = "sampled"
    /\ samples = 3
    /\ info = 1
    /\ CounterSum(values) = 2
    /\ values.less_than_two = 1
    /\ values.greater_than_four = 1
    /\ DecimalLt(values.min_spread, values.max_spread)
    /\ DecimalLt(values.min_percent, values.max_percent)

(***************************************************************************)
(* C25.  The spread bot, which samples every SAMPLE_PERIOD_SECS = 5        *)
(* seconds, writes a log entry and resets MinMax and the loop counter once *)
(* per LOG_ENTRY_PERIOD_SECS = 3600 seconds of sampling, that is once      *)
(* every 720 samples: the end of the loop body resets exactly when the     *)
(* sample just taken is the 720th since the previous reset.                *)
(***************************************************************************)
C25_ResetEvery720Samples ==
    [][(pc = "sampled" /\ pc' = "update")
          => ((loop_counter' = 0 /\ values' = MinMaxDefault)
                <=> loop_counter + 1 = LOG_ENTRY_PERIOD_SECS \div SAMPLE_PERIOD_SECS)]_vars

(***************************************************************************)
(* The polling loop of main.rs: one sample per iteration of about a        *)
(* second, the extremes of the spread kept in a MinMax of four fields and  *)
(* written to the output file when the counter is 0.                       *)
(***************************************************************************)
\* Iterations of the loop in one run.
MaxIterations == 305

\* MinMax::default() of main.rs
MainMinMaxDefault ==
    [min_spread     |-> DecimalMaxValue,
     min_percentage |-> DecimalMaxValue,
     max_spread     |-> DecimalMinValue,
     max_percentage |-> DecimalMinValue]

\* OrderBook::bid_ask_spread: the spread between the best bid and the best
\* offer and the spread as a fraction of their mid price; None when a side
\* is empty.
bid_ask_spread(orderbook) ==
    IF orderbook.buys = <<>> \/ orderbook.sells = <<>> THEN None
    ELSE Some(spread_percent([num |-> orderbook.buys[1].price, den |-> 1],
                             [num |-> orderbook.sells[1].price, den |-> 1]))

\* update_values of main.rs once the order book is in hand.
main_update_values(orderbook, v) ==
    LET o == bid_ask_spread(orderbook)
    IN  IF ~o.some THEN v
        ELSE LET spread     == o.val[1]
                 percentage == o.val[2]
                 v1 == IF DecimalLt(spread, v.min_spread)
                       THEN [v EXCEPT !.min_spread = spread] ELSE v
                 v2 == IF DecimalLt(v1.max_spread, spread)
                       THEN [v1 EXCEPT !.max_spread = spread] ELSE v1
                 v3 == IF DecimalLt(percentage, v2.min_percentage)
                       THEN [v2 EXCEPT !.min_percentage = percentage] ELSE v2
             IN  IF DecimalLt(v3.max_percentage, percentage)
                 THEN [v3 EXCEPT !.max_percentage = percentage] ELSE v3

\* write_to_file of main.rs: the line written holds the four extremes (after
\* the time of day, which is left out).  The process exits when the file
\* cannot be opened; a line that cannot be written is logged only.
main_write_to_file(f, v, io) ==
    CASE io = "Ok"       -> [file |-> Append(f, <<v.min_spread, v.max_spread,
                                                  v.min_percentage, v.max_percentage>>),
                             ok |-> TRUE]
      [] io = "WriteErr" -> [file |-> f, ok |-> TRUE]
      [] io = "OpenErr"  -> [file |-> f, ok |-> FALSE]

\* The counter after `counter += 1` and the test against 60 * 5.
next_counter(counter) == IF counter + 1 > 60 * 5 THEN 0 ELSE counter + 1

\* The snapshots the loop samples.
MainSnapshots ==
    {sn \in BotSnapshots :
        sn.sell_orders = <<>> \/ sn.sell_orders[1].price \in {Some(1001), Some(1010)}}

\* One iteration of the loop: the sample, the write when the counter is 0, the
\* delay and the counter.
MainLoop(fetch, snapshot, io) ==
    /\ pc = "main"
    /\ samples < MaxIterations
    /\ samples' = samples + 1
    /\ IF fetch = "Err"
       THEN /\ pc' = "panicked"
            /\ res' = [op |-> "order_book", volume |-> 1,
                       result |-> Panic("failed to get orderbook")]
            /\ UNCHANGED <<raw, stage, book, values, loop_counter, file>>
       ELSE /\ raw' = snapshot
            /\ stage' = "built"
            /\ book' \in OrderBookFrom(snapshot)
            /\ res' = [op |-> "bid_ask_spread", volume |-> 1,
                       result |-> bid_ask_spread(book')]
            /\ values' = main_update_values(book', values)
            /\ IF loop_counter = 0
               THEN LET w == main_write_to_file(file, values', io)
                    IN  /\ file' = w.file
                        /\ IF w.ok
                           THEN pc' = "main" /\ loop_counter' = next_counter(0)
                           ELSE pc' = "exited" /\ loop_counter' = loop_counter
               ELSE /\ io = "Ok"
                    /\ loop_counter' = next_counter(loop_counter)
                    /\ UNCHANGED <<pc, file>>
    /\ UNCHANGED <<info, nonceVars, rawVars>>

InitMain ==
    /\ now = 0
    /\ \E read \in ApiKeys :
          privates = <<PrivateNew(nonce(now), read.api_key, read.api_secret)>>
    /\ origin = <<[how |-> "new", seed |-> nonce(now)]>>
    /\ sent = <<>>
    /\ last = NoCall
    /\ BookIdle
    /\ RawIdle
    /\ pc = "main"
    /\ values = MainMinMaxDefault
    /\ loop_counter = 0
    /\ file = <<>>
    /\ info = 0
    /\ samples = 0

NextMain ==
    \E fetch \in Outcomes, snapshot \in MainSnapshots, io \in IoOutcomes :
        MainLoop(fetch, snapshot, io)

SpecMain == InitMain /\ [][NextMain]_vars

(***************************************************************************)
(* C24.  The polling loop of main.rs, which samples once per one-second    *)
(* iteration, writes the min/max record to the output file on the first    *)
(* iteration and then once every 5 minutes, that is once every 300         *)
(* iterations: the iteration after n iterations writes exactly when n is   *)
(* a multiple of 300.                                                      *)
(***************************************************************************)
C24_WritesEvery300Iterations ==
    pc = "main" => (loop_counter = 0 <=> samples % 300 = 0)

====
